---------------------------- MODULE Spec2Model ----------------------------
(***************************************************************************)
(* Keyword-extraction service: TextChunker.smart_split (app/core/          *)
(* extractor.py) and KeyBERTService (app/services/keybert_service.py);     *)
(* the backend application's KeyBERTService (app/services/nlp/             *)
(* keybert_service.py) and its queued task (app/tasks/nlp/keybert_tasks.py)*)
(*                                                                         *)
(* Texts are sequences of one-character strings.  Python offsets are       *)
(* 0-based and slices are half open; Slice(s, i, j) is the Python s[i:j].  *)
(* Scores are floats in the code; the model keeps them as exact rationals  *)
(* [num, den] over small integers.                                         *)
(***************************************************************************)
EXTENDS Integers, Sequences, FiniteSets, TLC

VARIABLES
    initialized, \* KeyBERTService._initialized
    backend,     \* KeyBERTService._backend: None or the KeyBERT wrapper
    init_error,  \* the exception the last initialize() raised, None if none
    epc,         \* position of extract: idle, title, ngram, page_limit,
                 \* dispatch, chunking, scoring, single, respond, done, error
    request,     \* extract: argument
    etext,       \* extract: the local `text`
    stop_words,  \* extract: local
    ngram_range, \* extract: local
    char_len,    \* extract: local
    approx_pages, \* extract: local, the rational num/den
    response,    \* extract: the returned KeywordExtractionResponse
    error,       \* the exception extract raised, None if none
    pc,          \* position of smart_split: idle, entry, loop, done, error
    text,        \* smart_split: the local `text` (argument, then normalized)
    chunk_size,  \* smart_split: argument
    overlap,     \* smart_split: argument
    n,           \* smart_split: len(text) after normalization
    start,       \* smart_split: loop variable
    chunks,      \* smart_split: the list being returned
    pieces,      \* history: one [s, e, kept] per loop iteration (text[s:e] cut)
    apc,         \* position of _extract_from_chunks: idle, entry, loop, returned,
                 \* raised
    max_keywords,               \* _extract_from_chunks: argument
    aggregation,                \* _extract_from_chunks: argument
    candidate_pool_multiplier,  \* _extract_from_chunks: argument, in tenths
    per_chunk_topn,             \* _extract_from_chunks: local
    idx,         \* _extract_from_chunks: number of chunks scored so far
    accumulator, \* _extract_from_chunks: dict, as [key, scores] in insertion order
    raws,        \* history: the list the scorer returned for each call
    calls,       \* history: [window, top_n] of each scorer call
    results,     \* the list of KeywordResult returned to extract
    keybert_enabled, \* nlp service: settings.keybert_enabled
    nlp_initialized, \* nlp service: KeyBERTService._initialized
    nlp_models,      \* nlp service: the keys of KeyBERTService._models
    loads,           \* history: how often each language's model was loaded
    tpc,         \* extract_keywords_async: idle, queued, extract, handle,
                 \* retry_wait, done
    task_data,   \* extract_keywords_async: argument
    retries,     \* extract_keywords_async: self.request.retries
    attempts,    \* history: number of runs of the task so far
    countdown,   \* history: the countdown of the last self.retry(), 0 if none
    raised,      \* the exception raised in the current run, None if none
    task_result, \* the dict the task returned: [status, error_code]
    bpc,         \* batch processing: idle, entry, seq, par, done, raised
    b_requests,  \* batch: the list of requests
    b_parallel,  \* batch: parallel_processing (nlp service only)
    b_fail_fast, \* batch: fail_fast
    b_i,         \* batch: the loop index i / idx
    b_tasks,     \* parallel batch: per task its result, Absent while pending
    b_results,   \* batch: the list `results`
    b_summary,   \* batch endpoint: the summary dict, None before it is built
    b_outcomes,  \* history: what became of each processed request, in
                 \* processing order
    c_mode,      \* concurrent initialize(): "coroutines" on one event loop
                 \* or "threads", None when not modelled
    c_pc,        \* per caller of initialize(): start, lock, load_de,
                 \* de_ready, de_failed, load_en, en_ready, en_failed,
                 \* returned, raised
    lock_owner   \* KeyBERTService._lock: the caller holding it, 0 when free

splitVars == <<pc, text, chunk_size, overlap, n, start, chunks, pieces>>

aggVars == <<apc, max_keywords, aggregation, candidate_pool_multiplier,
             per_chunk_topn, idx, accumulator, raws, calls, results>>

svcVars == <<initialized, backend, init_error>>

extVars == <<epc, request, etext, stop_words, ngram_range, char_len,
             approx_pages, response, error>>

nlpSvcVars == <<keybert_enabled, nlp_initialized, nlp_models, loads>>

taskVars == <<tpc, task_data, retries, attempts, countdown, raised,
              task_result>>

batchVars == <<bpc, b_requests, b_parallel, b_fail_fast, b_i, b_tasks,
               b_results, b_summary, b_outcomes>>

cinitVars == <<c_mode, c_pc, lock_owner>>

\* the variables of the backend application and of the batch endpoint
nlpVars == <<nlpSvcVars, taskVars, batchVars, cinitVars>>

\* the variables of the keyword-extraction service
kwVars == <<svcVars, extVars, splitVars, aggVars>>

vars == <<initialized, backend, init_error,
          epc, request, etext, stop_words, ngram_range, char_len,
          approx_pages, response, error,
          pc, text, chunk_size, overlap, n, start, chunks, pieces,
          apc, max_keywords, aggregation, candidate_pool_multiplier,
          per_chunk_topn, idx, accumulator, raws, calls, results,
          keybert_enabled, nlp_initialized, nlp_models, loads,
          tpc, task_data, retries, attempts, countdown, raised, task_result,
          bpc, b_requests, b_parallel, b_fail_fast, b_i, b_tasks, b_results,
          b_summary, b_outcomes, c_mode, c_pc, lock_owner>>

\* Python's None
None == "None"

\* an Optional field of the request: <<>> for None, <<x>> for the value x
Absent == <<>>
Some(x) == <<x>>
Value(opt) == opt[1]

\* smart_split is not running
SplitIdle ==
    /\ pc = "idle"
    /\ text = <<>>
    /\ chunk_size = 0
    /\ overlap = 0
    /\ n = 0
    /\ start = 0
    /\ pieces = <<>>

\* neither _extract_from_chunks nor _extract_single has been called
AggIdle ==
    /\ apc = "idle"
    /\ max_keywords = 0
    /\ aggregation = None
    /\ candidate_pool_multiplier = 0
    /\ per_chunk_topn = 0
    /\ idx = 0
    /\ accumulator = <<>>
    /\ raws = <<>>
    /\ calls = <<>>
    /\ results = <<>>

\* extract is not running
ExtIdle ==
    /\ epc = "idle"
    /\ request = None
    /\ etext = <<>>
    /\ stop_words = None
    /\ ngram_range = None
    /\ char_len = 0
    /\ approx_pages = None
    /\ response = None
    /\ error = None

\* the nlp service right after construction (nlp/keybert_service.py:40-51)
NlpSvcIdle ==
    /\ keybert_enabled = TRUE
    /\ nlp_initialized = FALSE
    /\ nlp_models = {}
    /\ loads = [l \in {"de", "en"} |-> 0]

\* the task has returned nothing yet: Celery reports it as PENDING
NoResult == [status |-> "PENDING", error_code |-> None]

\* no task has been queued
TaskIdle ==
    /\ tpc = "idle"
    /\ task_data = None
    /\ retries = 0
    /\ attempts = 0
    /\ countdown = 0
    /\ raised = None
    /\ task_result = NoResult

\* no batch is being processed
BatchIdle ==
    /\ bpc = "idle"
    /\ b_requests = <<>>
    /\ b_parallel = FALSE
    /\ b_fail_fast = FALSE
    /\ b_i = 0
    /\ b_tasks = <<>>
    /\ b_results = <<>>
    /\ b_summary = None
    /\ b_outcomes = <<>>

\* nobody has called initialize() of the nlp service
CInitIdle ==
    /\ c_mode = None
    /\ c_pc = <<>>
    /\ lock_owner = 0

\* nothing of the backend application is running
NlpIdle == NlpSvcIdle /\ TaskIdle /\ BatchIdle /\ CInitIdle

\* the service after a successful initialize()
SvcReady ==
    /\ initialized = TRUE
    /\ backend = "KeyBERT"
    /\ init_error = None

----------------------------------------------------------------------------
(* Bounds of the model *)

MaxLen == 6
MaxChunkSize == 4

Alphabet == {"a", ".", " ", "\n"}

\* extractor.py:51  window_end = min(end + 200, n)
ForwardWindow == 200

----------------------------------------------------------------------------
(* Python helpers *)

Min(a, b) == IF a <= b THEN a ELSE b
Max(a, b) == IF a >= b THEN a ELSE b

\* s[i:j] for 0 <= i, 0 <= j
Slice(s, i, j) == SubSeq(s, i + 1, Min(j, Len(s)))

\* str.strip() with no argument strips whitespace
IsSpace(c) == c \in {" ", "\t", "\n", "\r", "\f"}

Strip(s) ==
    LET keep == {i \in 1..Len(s) : ~IsSpace(s[i])}
    IN  IF keep = {} THEN <<>>
        ELSE LET lo == CHOOSE i \in keep : \A j \in keep : i <= j
                 hi == CHOOSE i \in keep : \A j \in keep : i >= j
             IN  SubSeq(s, lo, hi)

\* the character class [ \t\f\v] of normalize_whitespace
IsHSpace(c) == c \in {" ", "\t", "\f"}

\* re.sub(r"[ \t\f\v]+", " ", text)
RECURSIVE CollapseHSpace(_)
CollapseHSpace(s) ==
    IF s = <<>> THEN <<>>
    ELSE IF IsHSpace(Head(s))
         THEN IF Len(s) > 1 /\ IsHSpace(s[2])
              THEN CollapseHSpace(Tail(s))
              ELSE <<" ">> \o CollapseHSpace(Tail(s))
         ELSE <<Head(s)>> \o CollapseHSpace(Tail(s))

\* .replace("\r\n", "\n")
RECURSIVE ReplaceCRLF(_)
ReplaceCRLF(s) ==
    IF s = <<>> THEN <<>>
    ELSE IF Len(s) > 1 /\ s[1] = "\r" /\ s[2] = "\n"
         THEN <<"\n">> \o ReplaceCRLF(SubSeq(s, 3, Len(s)))
         ELSE <<Head(s)>> \o ReplaceCRLF(Tail(s))

normalize_whitespace(s) == Strip(ReplaceCRLF(CollapseHSpace(s)))

\* the character class [ \n\.\!\?\:\;\,]
IsBoundary(c) == c \in {" ", "\n", ".", "!", "?", ":", ";", ","}

\* re.search(r"[ \n\.\!\?\:\;\,]", s): offset of the first match, -1 for None
SearchForward(s) ==
    LET hits == {i \in 1..Len(s) : IsBoundary(s[i])}
    IN  IF hits = {} THEN -1
        ELSE (CHOOSE i \in hits : \A j \in hits : i <= j) - 1

\* the lookahead .*[ \n\.\!\?\:\;\,] tried right after index i (1-based):
\* `.` does not match a newline, the class does
LookaheadMatches(s, i) ==
    \E j \in (i + 1)..Len(s) :
        /\ IsBoundary(s[j])
        /\ \A k \in (i + 1)..(j - 1) : s[k] # "\n"

\* re.search(r"[ \n\.\!\?\:\;\,](?!.*[ \n\.\!\?\:\;\,])", s)
SearchBackward(s) ==
    LET hits == {i \in 1..Len(s) : IsBoundary(s[i]) /\ ~LookaheadMatches(s, i)}
    IN  IF hits = {} THEN -1
        ELSE (CHOOSE i \in hits : \A j \in hits : i <= j) - 1

\* int(chunk_size * 0.6)
IntSixTenths(cs) == (6 * cs) \div 10

\* cand - start >= chunk_size * 0.6
NotShrunkTooMuch(cand, st, cs) == 10 * (cand - st) >= 6 * cs

----------------------------------------------------------------------------
(* TextChunker.smart_split, one loop iteration at a time *)

\* lines 48-59: the tentative end, moved to an accepted forward boundary
ForwardEnd(t, st, cs) ==
    LET end        == Min(st + cs, Len(t))
        window_end == Min(end + ForwardWindow, Len(t))
        forward    == SearchForward(Slice(t, end, window_end))
    IN  IF forward # -1 /\ NotShrunkTooMuch(end + forward, st, cs)
        THEN end + forward
        ELSE end

\* lines 48-68: best_end of the iteration that starts at st
BestEnd(t, st, cs) ==
    LET end      == Min(st + cs, Len(t))
        best_end == ForwardEnd(t, st, cs)
    IN  IF best_end = end
        THEN LET window_start == Max(st + IntSixTenths(cs), st)
                 backward     == SearchBackward(Slice(t, window_start, end))
             IN  IF backward # -1 THEN window_start + backward ELSE best_end
        ELSE best_end

\* lines 70-72 without the `if chunk:` test
EmitChunkAlways(cs, chunk) == Append(cs, chunk)

\* lines 70-72
EmitChunk(cs, chunk) == IF chunk # <<>> THEN Append(cs, chunk) ELSE cs

\* line 78 with the overlap off by one
NextStartWide(best_end, ov) == Max(0, best_end - ov - 1)

\* line 78 skipping the character at the cut
NextStartSkip(best_end, ov) == Max(0, best_end - ov) + 1

\* line 78
NextStart(best_end, ov) == Max(0, best_end - ov)

\* lines 34-42 with the empty-text return of lines 39-42 ahead of the checks
SplitEnterLate ==
    /\ pc = "entry"
    /\ IF normalize_whitespace(text) = <<>>
       THEN /\ text' = <<>>
            /\ n' = 0
            /\ pc' = "done"
       ELSE IF chunk_size <= 0 \/ overlap >= chunk_size
       THEN /\ pc' = "error"
            /\ UNCHANGED <<text, n>>
       ELSE /\ text' = normalize_whitespace(text)
            /\ n' = Len(text')
            /\ pc' = "loop"
    /\ UNCHANGED <<chunk_size, overlap, start, chunks, pieces>>
    /\ UNCHANGED aggVars
    /\ UNCHANGED <<nlpVars, svcVars, extVars>>

\* lines 34-42
SplitEnter ==
    /\ pc = "entry"
    /\ IF chunk_size <= 0 \/ overlap >= chunk_size
       THEN /\ pc' = "error"
            /\ UNCHANGED <<text, n>>
       ELSE /\ text' = normalize_whitespace(text)
            /\ n' = Len(text')
            /\ pc' = IF n' = 0 THEN "done" ELSE "loop"
    /\ UNCHANGED <<chunk_size, overlap, start, chunks, pieces>>
    /\ UNCHANGED aggVars
    /\ UNCHANGED <<nlpVars, svcVars, extVars>>

\* lines 47-78, one iteration
SplitStep ==
    /\ pc = "loop"
    \* a run that returns visits pairwise different start offsets (the next
    \* start is a function of the current one): it has at most n iterations,
    \* and the model follows no run further
    /\ Len(pieces) <= n
    /\ IF start < n
       THEN LET best_end == BestEnd(text, start, chunk_size)
                chunk    == Strip(Slice(text, start, best_end))
            IN  /\ chunks' = EmitChunk(chunks, chunk)
                /\ pieces' = Append(pieces,
                                [s |-> start, e |-> best_end,
                                 kept |-> Len(chunks') > Len(chunks)])
                /\ IF best_end >= n
                   THEN pc' = "done" /\ start' = start
                   ELSE pc' = "loop" /\ start' = NextStart(best_end, overlap)
       ELSE /\ pc' = "done"
            /\ UNCHANGED <<start, chunks, pieces>>
    /\ UNCHANGED <<text, chunk_size, overlap, n>>
    /\ UNCHANGED aggVars
    /\ UNCHANGED <<nlpVars, svcVars, extVars>>

Texts == UNION {[1..k -> Alphabet] : k \in 0..MaxLen}

InitSplit ==
    /\ NlpIdle
    /\ pc = "entry"
    /\ text \in Texts
    /\ chunk_size \in 1..MaxChunkSize
    /\ overlap \in 0..(chunk_size - 1)
    /\ n = 0
    /\ start = 0
    /\ chunks = <<>>
    /\ pieces = <<>>
    /\ AggIdle
    /\ ExtIdle
    /\ SvcReady

NextSplit == SplitEnter \/ SplitStep

SpecSplit == InitSplit /\ [][NextSplit]_vars

----------------------------------------------------------------------------
(* Properties of smart_split *)

\* offsets i of text (0-based) inside the cut span of an emitted window
Covered(i) ==
    \E k \in 1..Len(pieces) :
        pieces[k].kept /\ pieces[k].s <= i /\ i < pieces[k].e

\* the cut spans of the emitted windows, in order
Emitted == SelectSeq(pieces, LAMBDA p : p.kept)

OverlapWithin(p, q) == 0 <= p.e - q.s /\ p.e - q.s <= overlap

\* C1 (as stated): a normalized text of length 1..chunk_size comes back as
\* exactly one window, equal to the normalized text.
C1_SingleWindow ==
    (pc = "done" /\ n > 0 /\ n <= chunk_size) => chunks = <<text>>

\* C2 (as stated): when smart_split returns, every offset of the normalized
\* text lies inside the cut span of at least one emitted window.
C2_CoverageAllOffsets ==
    (pc = "done" /\ n > 0) => \A i \in 0..(n - 1) : Covered(i)

\* C2 (amended): when smart_split returns, every offset that holds a
\* non-whitespace character lies inside the cut span of an emitted window;
\* the offsets left out are whitespace of pieces discarded as empty.
C2_CoverageNonSpace ==
    (pc = "done" /\ n > 0) =>
        \A i \in 0..(n - 1) : ~IsSpace(text[i + 1]) => Covered(i)

\* smart_split returned several windows and dropped a whitespace-only piece
\* whose offsets no emitted window covers
C2_Witness ==
    /\ pc = "done"
    /\ Len(chunks) >= 2
    /\ \E i \in 0..(n - 1) : IsSpace(text[i + 1]) /\ ~Covered(i)
    /\ \E i \in 0..(n - 1) : ~IsSpace(text[i + 1]) /\ Covered(i)

\* C3 (as stated): consecutive emitted windows share between 0 and overlap
\* characters (cut offset of window k minus start offset of window k+1).
C3_OverlapEmitted ==
    \A k \in 1..(Len(Emitted) - 1) : OverlapWithin(Emitted[k], Emitted[k + 1])

\* C3 (amended): consecutive cut pieces of the loop, emitted or discarded as
\* whitespace-only, share between 0 and overlap characters; so do consecutive
\* emitted windows with no discarded piece between them.
C3_OverlapPieces ==
    \A k \in 1..(Len(pieces) - 1) : OverlapWithin(pieces[k], pieces[k + 1])

\* two consecutive emitted windows that do share characters
C3_Witness ==
    \E k \in 1..(Len(pieces) - 1) :
        /\ pieces[k].kept /\ pieces[k + 1].kept
        /\ overlap > 0
        /\ pieces[k].e - pieces[k + 1].s = overlap

\* C4: no returned window is empty or whitespace-only.
C4_NoEmptyWindow ==
    \A k \in 1..Len(chunks) :
        /\ chunks[k] # <<>>
        /\ \E i \in 1..Len(chunks[k]) : ~IsSpace(chunks[k][i])

\* smart_split returned windows after cutting a whitespace-only piece
C4_Witness ==
    /\ pc = "done"
    /\ chunks # <<>>
    /\ \E k \in 1..Len(pieces) :
        /\ ~pieces[k].kept
        /\ pieces[k].e > pieces[k].s
        /\ \A i \in pieces[k].s..(pieces[k].e - 1) : IsSpace(text[i + 1])

----------------------------------------------------------------------------
(* KeyBERTService._extract_from_chunks (keybert_service.py:224-290) *)

MaxWindows == 2
MaxCands == 2       \* candidates the scorer returns during one request
MaxKeywords == 2

\* surface forms the scorer may return, and scores in tenths
Vocabulary == {<<"a">>, <<"A", " ">>, <<"b">>, <<"a", " ", "b">>}
Scores == {2, 5, 9}
Candidates == [kw : Vocabulary, score : Scores]

\* candidate_pool_multiplier in tenths: the default 3.0 and the maximum 10.0
PoolMultipliers == {30, 100}

Policies == {"max", "mean", "sum"}

\* str.lower() on the letters of the model
LowerChar(c) == CASE c = "A" -> "a" [] c = "B" -> "b" [] OTHER -> c
Lower(s) == [i \in 1..Len(s) |-> LowerChar(s[i])]

\* len(kw.split()): the number of maximal runs of non-whitespace
WordCount(s) ==
    Cardinality({i \in 1..Len(s) :
                    ~IsSpace(s[i]) /\ (i = 1 \/ IsSpace(s[i - 1]))})

\* line 264 without the case folding
AccumulatorKeyCased(kw) == Strip(kw)

\* line 264: key = kw.lower().strip()
AccumulatorKey(kw) == Strip(Lower(kw))

\* line 265: accumulator[key].append(float(score)); a new key goes last
Accumulate(acc, key, score) ==
    IF \E k \in 1..Len(acc) : acc[k].key = key
    THEN [k \in 1..Len(acc) |->
            IF acc[k].key = key
            THEN [key |-> key, scores |-> Append(acc[k].scores, score)]
            ELSE acc[k]]
    ELSE Append(acc, [key |-> key, scores |-> <<score>>])

\* lines 263-265: for kw, score in raw
RECURSIVE AccumulateAll(_, _)
AccumulateAll(acc, raw) ==
    IF raw = <<>> THEN acc
    ELSE AccumulateAll(
            Accumulate(acc, AccumulatorKey(Head(raw).kw), Head(raw).score),
            Tail(raw))

RECURSIVE SumSeq(_)
SumSeq(sc) == IF sc = <<>> THEN 0 ELSE Head(sc) + SumSeq(Tail(sc))

MaxSeq(sc) == CHOOSE x \in {sc[k] : k \in 1..Len(sc)} :
                \A k \in 1..Len(sc) : x >= sc[k]

\* lines 269-277 taking the first score seen
combineFirst(sc, agg) == [num |-> IF sc = <<>> THEN 0 ELSE sc[1], den |-> 1]

\* lines 269-277: combine(scores), the result as the rational num/den
combine(sc, agg) ==
    IF sc = <<>> THEN [num |-> 0, den |-> 1]
    ELSE IF agg = "max" THEN [num |-> MaxSeq(sc), den |-> 1]
    ELSE IF agg = "mean" THEN [num |-> SumSeq(sc), den |-> Len(sc)]
    ELSE [num |-> SumSeq(sc), den |-> 1]

RatLess(x, y) == x.num * y.den < y.num * x.den
RatEq(x, y) == x.num * y.den = y.num * x.den

\* list.sort(key=lambda x: x[1], reverse=True): stable, so entries of equal
\* score keep their order
RECURSIVE SortByScoreDesc(_)
SortByScoreDesc(c) ==
    IF c = <<>> THEN <<>>
    ELSE LET rest == SortByScoreDesc(SubSeq(c, 1, Len(c) - 1))
             x    == c[Len(c)]
             pos  == Cardinality({k \in 1..Len(rest) :
                                    ~RatLess(rest[k].score, x.score)})
         IN  SubSeq(rest, 1, pos) \o <<x>> \o SubSeq(rest, pos + 1, Len(rest))

\* line 284 without the slice
TopAll(c, mk) == c

\* line 284: combined[:max_keywords]
Top(c, mk) == SubSeq(c, 1, Min(mk, Len(c)))

\* lines 285-287
KeywordResult(kw, score) ==
    [keyword |-> kw, score |-> score, ngram_size |-> WordCount(kw)]

\* lines 279-290
Finalize(acc, agg, mk) ==
    LET combined == [k \in 1..Len(acc) |->
                        [key |-> acc[k].key,
                         score |-> combine(acc[k].scores, agg)]]
        top      == Top(SortByScoreDesc(combined), mk)
    IN  [k \in 1..Len(top) |-> KeywordResult(top[k].key, top[k].score)]

\* the candidates the scorer answers with inside a whole extract request: a
\* smaller pool than for _extract_from_chunks called on its own
ExtractCandidates ==
    { [kw |-> <<"a">>, score |-> 5],
      [kw |-> <<"A", " ">>, score |-> 5],
      [kw |-> <<"b">>, score |-> 9] }

ScorerPool == IF epc = "idle" THEN Candidates ELSE ExtractCandidates

\* what the scorer may return for top_n when `left` candidates of the
\* request's budget remain: any list of at most top_n candidates
ScorerOutputs(top_n, left) ==
    UNION {[1..k -> ScorerPool] : k \in 0..Min(top_n, left)}

RECURSIVE TotalLen(_)
TotalLen(rs) == IF rs = <<>> THEN 0 ELSE Len(Head(rs)) + TotalLen(Tail(rs))

\* lines 239-246
ChunksEnter ==
    /\ apc = "entry"
    /\ per_chunk_topn' =
            Max(10, (max_keywords * candidate_pool_multiplier) \div 10)
    /\ accumulator' = <<>>
    /\ idx' = 0
    /\ apc' = "loop"
    /\ UNCHANGED <<max_keywords, aggregation, candidate_pool_multiplier,
                   raws, calls, results>>
    /\ UNCHANGED splitVars
    /\ UNCHANGED <<nlpVars, svcVars, extVars>>

\* lines 248-265: one chunk scored and accumulated
ScoreChunk ==
    /\ apc = "loop"
    /\ idx < Len(chunks)
    /\ \E raw \in ScorerOutputs(per_chunk_topn, MaxCands - TotalLen(raws)) :
        /\ accumulator' = AccumulateAll(accumulator, raw)
        /\ raws' = Append(raws, raw)
    /\ calls' = Append(calls, [window |-> chunks[idx + 1],
                               top_n |-> per_chunk_topn])
    /\ idx' = idx + 1
    /\ UNCHANGED <<apc, max_keywords, aggregation, candidate_pool_multiplier,
                   per_chunk_topn, results>>
    /\ UNCHANGED splitVars
    /\ UNCHANGED <<nlpVars, svcVars, extVars>>

\* lines 250-257 with the scorer's exception caught and the chunk skipped
ScoreChunkSwallows ==
    /\ apc = "loop"
    /\ idx < Len(chunks)
    /\ calls' = Append(calls, [window |-> chunks[idx + 1],
                               top_n |-> per_chunk_topn])
    /\ idx' = idx + 1
    /\ UNCHANGED <<apc, max_keywords, aggregation, candidate_pool_multiplier,
                   per_chunk_topn, accumulator, raws, results>>
    /\ UNCHANGED splitVars
    /\ UNCHANGED <<nlpVars, svcVars, extVars>>

\* lines 250-257: the scorer raises; nothing in _extract_from_chunks catches it
ScoreChunkRaises ==
    /\ apc = "loop"
    /\ idx < Len(chunks)
    /\ calls' = Append(calls, [window |-> chunks[idx + 1],
                               top_n |-> per_chunk_topn])
    /\ apc' = "raised"
    /\ UNCHANGED <<max_keywords, aggregation, candidate_pool_multiplier,
                   per_chunk_topn, idx, accumulator, raws, results>>
    /\ UNCHANGED splitVars
    /\ UNCHANGED <<nlpVars, svcVars, extVars>>

\* lines 267-290 raising when no candidate was accumulated
AggregateRaisesOnEmpty ==
    /\ apc = "loop"
    /\ idx = Len(chunks)
    /\ IF accumulator = <<>>
       THEN apc' = "raised" /\ results' = results
       ELSE /\ results' = Finalize(accumulator, aggregation, max_keywords)
            /\ apc' = "returned"
    /\ UNCHANGED <<max_keywords, aggregation, candidate_pool_multiplier,
                   per_chunk_topn, idx, accumulator, raws, calls>>
    /\ UNCHANGED splitVars
    /\ UNCHANGED <<nlpVars, svcVars, extVars>>

\* lines 267-290 entered as soon as one window has been scored
AggregateEarly ==
    /\ apc = "loop"
    /\ idx >= Min(1, Len(chunks))
    /\ results' = Finalize(accumulator, aggregation, max_keywords)
    /\ apc' = "returned"
    /\ UNCHANGED <<max_keywords, aggregation, candidate_pool_multiplier,
                   per_chunk_topn, idx, accumulator, raws, calls>>
    /\ UNCHANGED splitVars
    /\ UNCHANGED <<nlpVars, svcVars, extVars>>

\* lines 267-290
Aggregate ==
    /\ apc = "loop"
    /\ idx = Len(chunks)
    /\ results' = Finalize(accumulator, aggregation, max_keywords)
    /\ apc' = "returned"
    /\ UNCHANGED <<max_keywords, aggregation, candidate_pool_multiplier,
                   per_chunk_topn, idx, accumulator, raws, calls>>
    /\ UNCHANGED splitVars
    /\ UNCHANGED <<nlpVars, svcVars, extVars>>

WindowLists == UNION {[1..k -> {<<"a">>}] : k \in 0..MaxWindows}

InitAgg ==
    /\ NlpIdle
    /\ SplitIdle
    /\ chunks \in WindowLists
    /\ apc = "entry"
    /\ max_keywords \in 1..MaxKeywords
    /\ aggregation \in Policies
    /\ candidate_pool_multiplier \in PoolMultipliers
    /\ per_chunk_topn = 0
    /\ idx = 0
    /\ accumulator = <<>>
    /\ raws = <<>>
    /\ calls = <<>>
    /\ results = <<>>
    /\ ExtIdle
    /\ SvcReady

NextAgg == ChunksEnter \/ ScoreChunk \/ ScoreChunkRaises \/ Aggregate

SpecAgg == InitAgg /\ [][NextAgg]_vars

\* lines 246-290 as one function of the per-window candidate lists
RECURSIVE AccumulateLists(_, _)
AccumulateLists(acc, rs) ==
    IF rs = <<>> THEN acc
    ELSE AccumulateLists(AccumulateAll(acc, Head(rs)), Tail(rs))

extract_from_chunks(rs, agg, mk) == Finalize(AccumulateLists(<<>>, rs), agg, mk)

----------------------------------------------------------------------------
(* Properties of the aggregation *)

\* the merge key of a surface form: trimmed and case-folded
MergeKey(kw) == Lower(Strip(kw))

\* where the scorer returned a candidate with merge key `key`: <<window, position>>
Observed(key) ==
    {p \in (1..Len(raws)) \X (1..MaxCands + 1) :
        /\ p[2] <= Len(raws[p[1]])
        /\ MergeKey(raws[p[1]][p[2]].kw) = key}

ScoreAt(p) == raws[p[1]][p[2]].score

RECURSIVE SumOver(_)
SumOver(ps) ==
    IF ps = {} THEN 0
    ELSE LET p == CHOOSE q \in ps : TRUE IN ScoreAt(p) + SumOver(ps \ {p})

\* the combined score the policy prescribes for `key`
Prescribed(key) ==
    LET ps == Observed(key)
    IN  CASE aggregation = "max" ->
                [num |-> CHOOSE x \in {ScoreAt(p) : p \in ps} :
                            \A p \in ps : x >= ScoreAt(p),
                 den |-> 1]
          [] aggregation = "mean" ->
                [num |-> SumOver(ps), den |-> Cardinality(ps)]
          [] aggregation = "sum" ->
                [num |-> SumOver(ps), den |-> 1]

ObservedKeys ==
    {MergeKey(raws[w][j].kw) : <<w, j>> \in
        {p \in (1..Len(raws)) \X (1..MaxCands + 1) : p[2] <= Len(raws[p[1]])}}

CharOrd(c) ==
    CASE c = " " -> 32 [] c = "A" -> 65 [] c = "B" -> 66
      [] c = "a" -> 97 [] c = "b" -> 98 [] OTHER -> 0

RECURSIVE LexLess(_, _)
LexLess(x, y) ==
    IF y = <<>> THEN FALSE
    ELSE IF x = <<>> THEN TRUE
    ELSE IF CharOrd(Head(x)) # CharOrd(Head(y))
         THEN CharOrd(Head(x)) < CharOrd(Head(y))
         ELSE LexLess(Tail(x), Tail(y))

Perms(k) == {f \in [1..k -> 1..k] : \A a, b \in 1..k : f[a] = f[b] => a = b}

\* C5 (as stated): the result is sorted by combined score descending; equal
\* scores come with the smaller n-gram size first, and for equal n-gram size
\* in ascending lexicographic order of the keyword.
C5_TieBreakOrder ==
    apc = "returned" =>
        \A i, j \in 1..Len(results) :
            i < j =>
                \/ RatLess(results[j].score, results[i].score)
                \/ /\ RatEq(results[i].score, results[j].score)
                   /\ \/ results[i].ngram_size < results[j].ngram_size
                      \/ /\ results[i].ngram_size = results[j].ngram_size
                         /\ LexLess(results[i].keyword, results[j].keyword)

\* C6 (as stated): the same candidate lists with the windows permuted, or
\* with the candidates of one window permuted, give the identical result.
C6_ReorderSameOutput ==
    apc = "returned" =>
        /\ \A f \in Perms(Len(raws)) :
            extract_from_chunks([k \in 1..Len(raws) |-> raws[f[k]]],
                                aggregation, max_keywords) = results
        /\ \A w \in 1..Len(raws) : \A f \in Perms(Len(raws[w])) :
            extract_from_chunks(
                [raws EXCEPT ![w] = [j \in 1..Len(raws[w]) |-> raws[w][f[j]]]],
                aggregation, max_keywords) = results

\* C7: every reported keyword carries the maximum, the arithmetic mean or the
\* sum (by policy) of all scores observed for its merge key in any window.
C7_MergeCorrect ==
    apc = "returned" =>
        \A k \in 1..Len(results) :
            /\ Observed(results[k].keyword) # {}
            /\ RatEq(results[k].score, Prescribed(results[k].keyword))

\* a reported keyword that two windows scored differently
C7_Witness ==
    /\ apc = "returned"
    /\ \E k \in 1..Len(results) :
        \E p, q \in Observed(results[k].keyword) :
            p[1] # q[1] /\ ScoreAt(p) # ScoreAt(q)

\* C8: no two entries of the aggregated result have the same merge key.
C8_NoDuplicateKey ==
    apc = "returned" =>
        \A i, j \in 1..Len(results) :
            i # j => MergeKey(results[i].keyword) # MergeKey(results[j].keyword)

\* a reported keyword that two windows returned in different surface forms
C8_Witness ==
    /\ apc = "returned"
    /\ \E k \in 1..Len(results) :
        \E p, q \in Observed(results[k].keyword) :
            p[1] # q[1] /\ raws[p[1]][p[2]].kw # raws[q[1]][q[2]].kw

\* C9: the result has min(max_keywords, number of distinct merge keys)
\* entries: never more than max_keywords, and all keys when there are fewer.
C9_CapRespected ==
    apc = "returned" =>
        /\ Len(results) <= max_keywords
        /\ Len(results) = Min(max_keywords, Cardinality(ObservedKeys))

\* more distinct keys were supplied than max_keywords allows
C9_Witness ==
    /\ apc = "returned"
    /\ Cardinality(ObservedKeys) > max_keywords
    /\ Len(results) = max_keywords

----------------------------------------------------------------------------
(* KeyBERTService: initialize, cleanup, extract (keybert_service.py:25-222) *)
(*                                                                         *)
(* Sizes are scaled down: the request schema asks for chunk_size_chars >=  *)
(* 400 and approx_chars_per_page >= 500, the model uses a few characters.  *)
(* use_mmr, diversity, text_type and request_id are passed through by the  *)
(* code unread and are left out of the request.                            *)

ExtractTexts ==
    { <<"a">>,
      <<"a", " ", "b", ".", "a">>,
      <<"\n", "\n", "\n", "\n">> }

Languages == {"de", "auto"}

\* weight in tenths
TitleConfigs ==
    { Absent, Some([text |-> <<"b", " ">>, weight |-> 15, normalize |-> TRUE]) }

ChunkingConfigs ==
    [ enable_chunking : BOOLEAN,
      max_pages : {1, 2, 5},
      approx_chars_per_page : {2},
      chunk_size_chars : {3},
      chunk_overlap_chars : {0, 1, 3},
      candidate_pool_multiplier : {30},
      aggregation : Policies ]

\* the fields extract reads besides text, title and chunking; they feed
\* the scorer's parameters and the response only, so they vary together
RequestOptions ==
    { [language |-> "de", min_ngram |-> Absent, max_ngram |-> Absent,
       include_metadata |-> TRUE],
      [language |-> "auto", min_ngram |-> Some(2), max_ngram |-> Some(1),
       include_metadata |-> FALSE],
      [language |-> "auto", min_ngram |-> Some(2), max_ngram |-> Absent,
       include_metadata |-> TRUE],
      [language |-> "de", min_ngram |-> Absent, max_ngram |-> Some(1),
       include_metadata |-> FALSE] }

Requests ==
    { [ text |-> t,
        language |-> o.language,
        max_keywords |-> mk,
        ngram_range |-> Absent,
        min_ngram |-> o.min_ngram,
        max_ngram |-> o.max_ngram,
        include_metadata |-> o.include_metadata,
        title_config |-> tc,
        chunking |-> c ] :
        t \in ExtractTexts, o \in RequestOptions, mk \in 1..MaxKeywords,
        tc \in TitleConfigs, c \in ChunkingConfigs }

RECURSIVE Repeat(_, _)
Repeat(s, k) == IF k <= 0 THEN <<>> ELSE s \o Repeat(s, k - 1)

\* line 301 rounding the weight down
FloorTenths(w) == w \div 10

\* math.ceil of a positive weight given in tenths
CeilTenths(w) == (w + 9) \div 10

\* lines 292-303
apply_title_weighting(t, config) ==
    IF config = Absent \/ Value(config).text = <<>> THEN t
    ELSE LET weight  == IF Value(config).normalize
                        THEN Max(10, Min(50, Value(config).weight))
                        ELSE Value(config).weight
             repeats == Max(1, CeilTenths(weight))
         IN  Repeat(Strip(Value(config).text) \o <<"\n">>, repeats) \o t

\* lines 305-317
resolve_stop_words(language) ==
    IF language = "de" THEN None
    ELSE IF language = "en" \/ language = "auto" THEN "english"
    ELSE None

\* lines 89-98
derive_ngram_range(req) ==
    IF req.ngram_range # Absent THEN Value(req.ngram_range)
    ELSE IF req.min_ngram # Absent \/ req.max_ngram # Absent
         THEN LET mn == IF req.min_ngram # Absent
                        THEN Value(req.min_ngram) ELSE 1
                  mx == IF req.max_ngram # Absent
                        THEN Value(req.max_ngram) ELSE mn
              IN  IF mn > mx THEN <<mx, mn>> ELSE <<mn, mx>>
         ELSE <<1, 2>>

\* extractor.py:14-17 answering zero pages for every text
estimate_pages_zero(char_count, approx_chars_per_page) ==
    [num |-> 0, den |-> 1]

\* extractor.py:14-17, the quotient kept as num/den
estimate_pages(char_count, approx_chars_per_page) ==
    [num |-> char_count, den |-> Max(approx_chars_per_page, 1)]

\* The model follows one extract call; initialize() and cleanup() are
\* followed up to that call.  extract is synchronous and initialize and
\* cleanup do not await, so none of them runs inside another.

\* lines 29-52: initialize() returns at once or loads the model
Initialize ==
    /\ epc = "idle"
    /\ IF initialized
       THEN UNCHANGED <<initialized, backend>>
       ELSE /\ backend' = "KeyBERT"
            /\ initialized' = TRUE
    /\ init_error' = None
    /\ UNCHANGED <<nlpVars, extVars, splitVars, aggVars>>

\* lines 53-55: loading raises; RuntimeError, the fields stay as they were
InitializeFails ==
    /\ epc = "idle"
    /\ ~initialized
    /\ init_error' = "RuntimeError"
    /\ UNCHANGED <<initialized, backend>>
    /\ UNCHANGED <<nlpVars, extVars, splitVars, aggVars>>

\* lines 61-64
Cleanup ==
    /\ epc = "idle"
    /\ backend' = None
    /\ initialized' = FALSE
    /\ UNCHANGED init_error
    /\ UNCHANGED <<nlpVars, extVars, splitVars, aggVars>>

\* lines 66-78 without the check of lines 75-76
ExtractEnterUnchecked ==
    /\ epc = "idle"
    /\ \E req \in Requests : request' = req
    /\ epc' = "title"
    /\ error' = error
    /\ etext' = request'.text
    /\ UNCHANGED <<stop_words, ngram_range, char_len, approx_pages, response>>
    /\ UNCHANGED <<nlpVars, svcVars, splitVars, aggVars>>

\* lines 66-78
ExtractEnter ==
    /\ epc = "idle"
    /\ \E req \in Requests : request' = req
    /\ IF ~initialized \/ backend = None
       THEN /\ epc' = "error"
            /\ error' = "RuntimeError"
            /\ etext' = etext
       ELSE /\ epc' = "title"
            /\ error' = error
            /\ etext' = request'.text
    /\ UNCHANGED <<stop_words, ngram_range, char_len, approx_pages, response>>
    /\ UNCHANGED <<nlpVars, svcVars, splitVars, aggVars>>

\* lines 80-83
TitleWeighting ==
    /\ epc = "title"
    /\ etext' = IF request.title_config # Absent
                   /\ Value(request.title_config).text # <<>>
                THEN apply_title_weighting(etext, request.title_config)
                ELSE etext
    /\ epc' = "ngram"
    /\ UNCHANGED <<request, stop_words, ngram_range, char_len, approx_pages,
                   response, error>>
    /\ UNCHANGED <<nlpVars, svcVars, splitVars, aggVars>>

\* lines 85-98
NgramHandling ==
    /\ epc = "ngram"
    /\ stop_words' = resolve_stop_words(request.language)
    /\ ngram_range' = derive_ngram_range(request)
    /\ epc' = "page_limit"
    /\ UNCHANGED <<request, etext, char_len, approx_pages, response, error>>
    /\ UNCHANGED <<nlpVars, svcVars, splitVars, aggVars>>

\* lines 100-131
PageLimit ==
    /\ epc = "page_limit"
    /\ LET cfg   == request.chunking
           pages == estimate_pages(Len(etext), cfg.approx_chars_per_page)
       IN  IF pages.num > cfg.max_pages * pages.den
           THEN LET max_chars == cfg.max_pages * cfg.approx_chars_per_page
                IN  /\ etext' = Slice(etext, 0, max_chars)
                    /\ char_len' = Len(etext')
                    /\ approx_pages' =
                         estimate_pages(char_len', cfg.approx_chars_per_page)
           ELSE /\ etext' = etext
                /\ char_len' = Len(etext)
                /\ approx_pages' = pages
    /\ epc' = "dispatch"
    /\ UNCHANGED <<request, stop_words, ngram_range, response, error>>
    /\ UNCHANGED <<nlpVars, svcVars, splitVars, aggVars>>

\* lines 133-139 deciding on the length alone
DispatchChunkedAlways ==
    /\ epc = "dispatch"
    /\ char_len > request.chunking.chunk_size_chars
    /\ pc' = "entry"
    /\ text' = etext
    /\ chunk_size' = request.chunking.chunk_size_chars
    /\ overlap' = request.chunking.chunk_overlap_chars
    /\ n' = 0
    /\ start' = 0
    /\ chunks' = <<>>
    /\ pieces' = <<>>
    /\ epc' = "chunking"
    /\ UNCHANGED <<request, etext, stop_words, ngram_range, char_len,
                   approx_pages, response, error>>
    /\ UNCHANGED <<nlpVars, svcVars, aggVars>>

\* lines 133-139: the chunked path calls smart_split
DispatchChunked ==
    /\ epc = "dispatch"
    /\ request.chunking.enable_chunking
    /\ char_len > request.chunking.chunk_size_chars
    /\ pc' = "entry"
    /\ text' = etext
    /\ chunk_size' = request.chunking.chunk_size_chars
    /\ overlap' = request.chunking.chunk_overlap_chars
    /\ n' = 0
    /\ start' = 0
    /\ chunks' = <<>>
    /\ pieces' = <<>>
    /\ epc' = "chunking"
    /\ UNCHANGED <<request, etext, stop_words, ngram_range, char_len,
                   approx_pages, response, error>>
    /\ UNCHANGED <<nlpVars, svcVars, aggVars>>

\* lines 35-37 seen from extract: smart_split raises ValueError
SplitRaised ==
    /\ epc = "chunking"
    /\ pc = "error"
    /\ epc' = "error"
    /\ error' = "ValueError"
    /\ UNCHANGED <<request, etext, stop_words, ngram_range, char_len,
                   approx_pages, response>>
    /\ UNCHANGED <<nlpVars, svcVars, splitVars, aggVars>>

\* lines 140-149: smart_split returned, _extract_from_chunks is called
SplitReturned ==
    /\ epc = "chunking"
    /\ pc = "done"
    /\ apc' = "entry"
    /\ max_keywords' = request.max_keywords
    /\ aggregation' = request.chunking.aggregation
    /\ candidate_pool_multiplier' = request.chunking.candidate_pool_multiplier
    /\ epc' = "scoring"
    /\ UNCHANGED <<per_chunk_topn, idx, accumulator, raws, calls, results>>
    /\ UNCHANGED <<request, etext, stop_words, ngram_range, char_len,
                   approx_pages, response, error>>
    /\ UNCHANGED <<nlpVars, svcVars, splitVars>>

\* _extract_from_chunks returned its list
ChunksReturned ==
    /\ epc = "scoring"
    /\ apc = "returned"
    /\ epc' = "respond"
    /\ UNCHANGED <<request, etext, stop_words, ngram_range, char_len,
                   approx_pages, response, error>>
    /\ UNCHANGED <<nlpVars, svcVars, splitVars, aggVars>>

\* the scorer's exception leaves _extract_from_chunks and extract
ChunksRaised ==
    /\ epc = "scoring"
    /\ apc = "raised"
    /\ epc' = "error"
    /\ error' = "ScorerError"
    /\ UNCHANGED <<request, etext, stop_words, ngram_range, char_len,
                   approx_pages, response>>
    /\ UNCHANGED <<nlpVars, svcVars, splitVars, aggVars>>

\* lines 219-222: the scorer's list as KeywordResults, one for one
single_results(raw) ==
    [k \in 1..Len(raw) |->
        [keyword |-> raw[k].kw,
         score |-> [num |-> raw[k].score, den |-> 1],
         ngram_size |-> WordCount(raw[k].kw)]]

\* lines 150-158 and 195-222: the single-shot path, _extract_single
ExtractSingle ==
    /\ epc = "dispatch"
    /\ ~(request.chunking.enable_chunking
         /\ char_len > request.chunking.chunk_size_chars)
    /\ \E raw \in ScorerOutputs(request.max_keywords, MaxCands) :
        /\ raws' = Append(raws, raw)
        /\ results' = single_results(raw)
    /\ calls' = Append(calls, [window |-> etext,
                               top_n |-> request.max_keywords])
    /\ epc' = "respond"
    /\ UNCHANGED <<apc, max_keywords, aggregation, candidate_pool_multiplier,
                   per_chunk_topn, idx, accumulator>>
    /\ UNCHANGED <<request, etext, stop_words, ngram_range, char_len,
                   approx_pages, response, error>>
    /\ UNCHANGED <<nlpVars, svcVars, splitVars>>

\* lines 211-218: the single scorer call raises
ExtractSingleRaises ==
    /\ epc = "dispatch"
    /\ ~(request.chunking.enable_chunking
         /\ char_len > request.chunking.chunk_size_chars)
    /\ calls' = Append(calls, [window |-> etext,
                               top_n |-> request.max_keywords])
    /\ epc' = "error"
    /\ error' = "ScorerError"
    /\ UNCHANGED <<apc, max_keywords, aggregation, candidate_pool_multiplier,
                   per_chunk_topn, idx, accumulator, raws, results>>
    /\ UNCHANGED <<request, etext, stop_words, ngram_range, char_len,
                   approx_pages, response>>
    /\ UNCHANGED <<nlpVars, svcVars, splitVars>>

\* lines 160-191
Respond ==
    /\ epc = "respond"
    /\ response' =
        [ keywords |-> results,
          total_keywords_found |-> Len(results),
          text_length |-> Len(request.text),
          language |-> request.language,
          processing_metadata |->
            IF request.include_metadata
            THEN [ ngram_range |-> ngram_range,
                   stop_words |-> stop_words,
                   chunking |->
                     [ enabled |-> request.chunking.enable_chunking,
                       approx_pages |-> approx_pages,
                       chunk_size_chars |-> request.chunking.chunk_size_chars,
                       chunk_overlap_chars |->
                            request.chunking.chunk_overlap_chars,
                       aggregation |-> request.chunking.aggregation ] ]
            ELSE None ]
    /\ epc' = "done"
    /\ UNCHANGED <<request, etext, stop_words, ngram_range, char_len,
                   approx_pages, error>>
    /\ UNCHANGED <<nlpVars, svcVars, splitVars, aggVars>>

\* the service right after construction (lines 25-27)
KwIdle ==
    /\ initialized = FALSE
    /\ backend = None
    /\ init_error = None
    /\ ExtIdle
    /\ SplitIdle
    /\ chunks = <<>>
    /\ AggIdle

InitExtract == KwIdle /\ NlpIdle

NextExtract ==
    \/ Initialize \/ InitializeFails \/ Cleanup
    \/ ExtractEnter \/ TitleWeighting \/ NgramHandling \/ PageLimit
    \/ DispatchChunked \/ SplitEnter \/ SplitStep \/ SplitRaised
    \/ SplitReturned \/ ChunksEnter \/ ScoreChunk \/ ScoreChunkRaises
    \/ Aggregate \/ ChunksReturned \/ ChunksRaised
    \/ ExtractSingle \/ ExtractSingleRaises \/ Respond

SpecExtract == InitExtract /\ [][NextExtract]_vars

\* C10 (as stated): on the single-window path as on the chunked path the
\* returned keyword list has no two entries with the same merge key and at
\* most max_keywords entries.
C10_ResultIsAggregated ==
    epc = "done" =>
        /\ Len(response.keywords) <= request.max_keywords
        /\ \A i, j \in 1..Len(response.keywords) :
            i # j => MergeKey(response.keywords[i].keyword)
                        # MergeKey(response.keywords[j].keyword)

\* a scorer call of this request raised: it was issued and returned no list
ScorerRaised == Len(calls) > Len(raws)

\* C11: once a scorer call has raised, the single one or the one for any
\* window, extract fails with the scorer's error: no response is assembled,
\* no keyword list is produced from the candidates collected so far, and no
\* further window is scored.
C11_ScorerFailureNotSwallowed ==
    ScorerRaised =>
        /\ response = None
        /\ results = <<>>
        /\ Len(calls) = Len(raws) + 1
        /\ \/ epc = "error" /\ error = "ScorerError"
           \/ epc = "scoring" /\ apc = "raised"

\* the scorer raised on a later window, after candidates had been collected
C11_Witness ==
    /\ epc = "error"
    /\ error = "ScorerError"
    /\ accumulator # <<>>
    /\ Len(calls) >= 2

\* the service is ready: a successful initialize with no cleanup since
Ready == initialized /\ backend # None

\* C12: an extract call on a service that is not ready ends in the
\* not-ready error without any scorer call, and every scorer call is made
\* on a ready service.
C12_ScorerOnlyWhenReady ==
    /\ (epc # "idle" /\ ~Ready) =>
            /\ epc = "error"
            /\ error = "RuntimeError"
            /\ calls = <<>>
            /\ response = None
    /\ calls # <<>> => Ready

\* extract was called after initialize had failed
C12_Witness ==
    /\ epc = "error"
    /\ error = "RuntimeError"
    /\ init_error = "RuntimeError"
    /\ calls = <<>>

\* the text of the request with the title prefix, before the page limit
WeightedText(req) == apply_title_weighting(req.text, req.title_config)

\* the page limit of the request in characters
MaxChars(req) == req.chunking.max_pages * req.chunking.approx_chars_per_page

\* the page limit has been applied to etext
PastPageLimit == epc \in {"dispatch", "chunking", "scoring", "respond", "done"}

\* the title-prefixed text of the request is longer than the page limit
Truncated == Len(WeightedText(request)) > MaxChars(request)

\* C13: past the page-limit step the working text is the title-prefixed
\* text cut to its first max_pages * approx_chars_per_page characters when
\* it was longer than that and the whole of it otherwise, the request goes
\* on, and no text handed to the scorer is longer than the limit.
C13_PageLimitEnforced ==
    /\ PastPageLimit =>
            /\ etext = IF Truncated
                       THEN SubSeq(WeightedText(request), 1, MaxChars(request))
                       ELSE WeightedText(request)
            /\ char_len = Len(etext)
            /\ error = None
    /\ epc # "idle" =>
            \A k \in 1..Len(calls) :
                Len(calls[k].window) <= MaxChars(request)

\* a truncated request completed on the chunked path
C13_Witness ==
    /\ epc = "done"
    /\ Truncated
    /\ Len(etext) < Len(WeightedText(request))
    /\ Len(calls) >= 2

\* the names of everything the assembled response carries, the processing
\* metadata and its chunking entry included when the request asked for them
ResponseFields ==
    DOMAIN response
        \cup IF request.include_metadata
             THEN DOMAIN response.processing_metadata
                    \cup DOMAIN response.processing_metadata.chunking
             ELSE {}

\* C14 (as stated): the response of a request whose text was cut by the
\* page limit carries a record of the cut (a flag, or the processed length
\* next to the original one) and the number of windows processed.
C14_TruncationVisible ==
    (epc = "done" /\ Truncated) =>
        /\ {"truncated", "original_length", "processed_length"}
                \cap ResponseFields # {}
        /\ {"windows_processed", "num_chunks"} \cap ResponseFields # {}

\* the text of the request as it leaves the page-limit step
ProcessedText(req) ==
    LET w == WeightedText(req)
    IN  IF Len(w) > MaxChars(req) THEN SubSeq(w, 1, MaxChars(req)) ELSE w

\* the request is to be served by one scorer call
SingleShot(req) ==
    \/ ~req.chunking.enable_chunking
    \/ Len(ProcessedText(req)) <= req.chunking.chunk_size_chars

\* C15: for a request with chunking disabled, or whose title-prefixed and
\* possibly truncated text is no longer than chunk_size_chars, smart_split
\* is never entered, every scorer call is on the whole processed text with
\* top_n = max_keywords, and a request that got its keywords made exactly
\* one such call.
C15_SingleShot ==
    (epc # "idle" /\ SingleShot(request)) =>
        /\ pc = "idle"
        /\ pieces = <<>>
        /\ Len(calls) <= 1
        /\ \A k \in 1..Len(calls) :
                /\ calls[k].window = ProcessedText(request)
                /\ calls[k].top_n = request.max_keywords
        /\ epc \in {"respond", "done"} => Len(calls) = 1

\* chunking was enabled, the truncated text fitted one chunk
C15_Witness ==
    /\ epc = "done"
    /\ request.chunking.enable_chunking
    /\ Truncated
    /\ SingleShot(request)
    /\ Len(calls) = 1

----------------------------------------------------------------------------
(* smart_split called with any chunk_size and overlap, valid or not *)

MaxShortLen == 2

ShortTexts == UNION {[1..k -> Alphabet] : k \in 0..MaxShortLen}

InitSplitAny ==
    /\ NlpIdle
    /\ pc = "entry"
    /\ text \in ShortTexts
    /\ chunk_size \in -1..MaxChunkSize
    /\ overlap \in 0..(MaxChunkSize + 1)
    /\ n = 0
    /\ start = 0
    /\ chunks = <<>>
    /\ pieces = <<>>
    /\ AggIdle
    /\ ExtIdle
    /\ SvcReady

SpecSplitAny == InitSplitAny /\ [][NextSplit]_vars

BadSplitConfig == chunk_size <= 0 \/ overlap >= chunk_size

\* C16: a call of smart_split with chunk_size <= 0 or overlap >= chunk_size
\* raises in its first step, whatever the text: the text is not normalized,
\* nothing is measured and no window is emitted.
C16_PreconditionErrors ==
    [][(pc = "entry" /\ BadSplitConfig) =>
            /\ pc' = "error"
            /\ text' = text
            /\ n' = 0
            /\ chunks' = <<>>
            /\ pieces' = <<>>]_vars

\* the call with an empty text and overlap = chunk_size > 0 has raised
C16_Witness ==
    /\ pc = "error"
    /\ text = <<>>
    /\ chunk_size > 0
    /\ overlap = chunk_size

----------------------------------------------------------------------------
(* Properties of extract: request validation, title weighting *)

\* the request asks for a minimum n-gram size above the maximum
MinAboveMax(req) ==
    \/ req.ngram_range # Absent
            /\ Value(req.ngram_range)[1] > Value(req.ngram_range)[2]
    \/ req.ngram_range = Absent
            /\ req.min_ngram # Absent /\ req.max_ngram # Absent
            /\ Value(req.min_ngram) > Value(req.max_ngram)

\* C17 (as stated): a request whose minimum n-gram size is greater than its
\* maximum is rejected: the scorer is never called for it and it yields no
\* keyword list.
C17_NgramRangeRejected ==
    (epc # "idle" /\ MinAboveMax(request)) =>
        /\ calls = <<>>
        /\ epc \notin {"respond", "done"}

\* C18 (as stated): no request whose chunk_overlap_chars is greater than or
\* equal to its chunk_size_chars completes successfully.
C18_OverlapBelowChunkSize ==
    epc = "done" =>
        request.chunking.chunk_overlap_chars
            < request.chunking.chunk_size_chars

\* _apply_title_weighting on its own: the title step of extract over more
\* title texts and weights than whole requests are run with

TitleTexts == { <<>>, <<"b", " ">>, <<" ">>, <<" ", "t", "\n">> }

\* weights in tenths, within the schema's 0 < weight <= 10
TitleWeights == {3, 10, 15, 30, 50, 51, 100}

WeightedTitleConfigs ==
    {Absent} \cup
    { Some([text |-> tt, weight |-> w, normalize |-> nz]) :
        tt \in TitleTexts, w \in TitleWeights, nz \in BOOLEAN }

TitleRequests ==
    LET o == CHOOSE x \in RequestOptions : TRUE
        c == CHOOSE x \in ChunkingConfigs : TRUE
    IN  { [ text |-> t,
            language |-> o.language,
            max_keywords |-> 1,
            ngram_range |-> Absent,
            min_ngram |-> o.min_ngram,
            max_ngram |-> o.max_ngram,
            include_metadata |-> o.include_metadata,
            title_config |-> tc,
            chunking |-> c ] :
            t \in ExtractTexts, tc \in WeightedTitleConfigs }

\* extract has passed its readiness check and holds the request's text
InitTitle ==
    /\ NlpIdle
    /\ SvcReady
    /\ init_error = None
    /\ epc = "title"
    /\ request \in TitleRequests
    /\ etext = request.text
    /\ stop_words = None
    /\ ngram_range = None
    /\ char_len = 0
    /\ approx_pages = None
    /\ response = None
    /\ error = None
    /\ SplitIdle
    /\ chunks = <<>>
    /\ AggIdle

SpecTitle == InitTitle /\ [][TitleWeighting]_vars

\* the number of title copies the claim prescribes for a weight in tenths:
\* max(1, ceil(w)), w clamped to [1.0, 5.0] under normalize
Repetitions(config) ==
    LET w == IF config.normalize
             THEN (IF config.weight < 10 THEN 10
                   ELSE IF config.weight > 50 THEN 50 ELSE config.weight)
             ELSE config.weight
        c == CHOOSE k \in 0..10 : 10 * k >= w /\ 10 * (k - 1) < w
    IN  IF c < 1 THEN 1 ELSE c

\* the text the claim prescribes for a request
TitledText(req) ==
    IF req.title_config = Absent THEN req.text
    ELSE IF Value(req.title_config).text = <<>> THEN req.text
    ELSE LET line == Strip(Value(req.title_config).text) \o <<"\n">>
             reps == Repetitions(Value(req.title_config))
         IN  [i \in 1..(reps * Len(line)) |-> line[((i - 1) % Len(line)) + 1]]
                \o req.text

\* C19: past the title step the working text is the request's text behind
\* max(1, ceil(w)) copies of the trimmed title, each followed by a newline,
\* w being the weight, clamped to [1.0, 5.0] under normalize; with no title
\* config or an empty title text it is the request's text.
C19_TitleWeighting ==
    epc = "ngram" => etext = TitledText(request)

\* weight 10.0 under normalize: five copies
C19_Witness ==
    /\ epc = "ngram"
    /\ request.title_config # Absent
    /\ Value(request.title_config).text = <<"b", " ">>
    /\ Value(request.title_config).weight = 100
    /\ Value(request.title_config).normalize
    /\ Len(etext) = 10 + Len(request.text)

----------------------------------------------------------------------------
(* Degenerate input *)

\* C20: smart_split of a text that is empty after normalization returns no
\* window and raises only for a bad chunk_size / overlap, never for the
\* text; _extract_from_chunks over no windows, or over windows for which
\* the scorer returned no candidate, returns the empty list, and it raises
\* only when a scorer call raised.
C20_DegenerateInput ==
    /\ (pc = "done" /\ text = <<>>) => (chunks = <<>> /\ pieces = <<>>)
    /\ pc = "error" => BadSplitConfig
    /\ (apc = "returned" /\ \A k \in 1..Len(raws) : raws[k] = <<>>) =>
            results = <<>>
    /\ apc = "raised" => ScorerRaised

\* a request whose text is whitespace only went through smart_split and the
\* aggregation over zero windows and ended with an empty keyword list
C20_Witness ==
    /\ epc = "done"
    /\ pc = "done"
    /\ text = <<>>
    /\ chunks = <<>>
    /\ apc = "returned"
    /\ calls = <<>>
    /\ response.keywords = <<>>

----------------------------------------------------------------------------
(* smart_split on 12,000-character normalized documents with the default   *)
(* chunk_size_chars = 1200 and chunk_overlap_chars = 200                    *)

\* a document of letters with one full stop at offset b (0-based), none for
\* b = -1; it is its own normalization
ScenarioDoc(b) == [i \in 1..12000 |-> IF i = b + 1 THEN "." ELSE "a"]

ScenarioDocs ==
    { ScenarioDoc(b) :
        b \in {-1, 720, 800, 899, 900, 1199, 1200, 1300, 1399, 11900} }

\* smart_split past lines 34-45 on such a document
InitScenario ==
    /\ NlpIdle
    /\ pc = "loop"
    /\ text \in ScenarioDocs
    /\ n = Len(text)
    /\ chunk_size = 1200
    /\ overlap = 200
    /\ start = 0
    /\ chunks = <<>>
    /\ pieces = <<>>
    /\ AggIdle
    /\ ExtIdle
    /\ SvcReady

SpecScenario == InitScenario /\ [][SplitStep]_vars

\* C21 (as stated): a 12,000-character normalized document split with
\* chunk_size 1200 and overlap 200 gives at least 10 windows, each of them
\* 900 to 1400 characters long, and the windows cover the whole document.
C21_ScenarioWindows ==
    pc = "done" =>
        /\ Len(chunks) >= 10
        /\ \A k \in 1..Len(chunks) :
                900 <= Len(chunks[k]) /\ Len(chunks[k]) <= 1400
        /\ \A i \in 0..(n - 1) : Covered(i)

----------------------------------------------------------------------------
(* The backend application: KeyBERTService.extract_keywords                 *)
(* (app/services/nlp/keybert_service.py) and the queued task                *)
(* extract_keywords_async (app/tasks/nlp/keybert_tasks.py)                  *)
(*                                                                         *)
(* A text is kept as its length and the length of its strip(): these are   *)
(* all the code reads of it besides handing it to the model.               *)

\* keybert_tasks.py:21  @celery_app.task(bind=True, max_retries=3, ...)
max_retries == 3

\* nlp/keybert_service.py:192  if text_length < 10
MinTextLength == 10

\* nlp/keybert_service.py:195  if text_length > 50000
MaxTextLength == 50000

TaskTexts ==
    { [length |-> 0, stripped |-> 0],
      [length |-> 12, stripped |-> 9],
      [length |-> 10, stripped |-> 10],
      [length |-> 50000, stripped |-> 50000],
      [length |-> 50003, stripped |-> 50000],
      [length |-> 50001, stripped |-> 50001] }

TaskLanguages == {"de", "en", "fr"}

TaskData == [text : TaskTexts, language : TaskLanguages]

\* nlp/keybert_service.py:182-197: the exception the validation raises,
\* None if it passes
ValidationError(data) ==
    IF ~nlp_initialized THEN "ModelNotLoadedException"
    ELSE IF data.language \notin nlp_models
         THEN "UnsupportedLanguageException"
    ELSE IF data.text.stripped < MinTextLength THEN "TextTooShortException"
    ELSE IF data.text.stripped > MaxTextLength THEN "TextTooLongException"
    ELSE None

\* keybert_tasks.py:35-55: a run starts; the service is initialized first
\* when it is not yet.  initialize() alone in its event loop: it returns
\* at once when disabled, loads de and then en, and raises
\* KeywordExtractionException when a load fails
\* (nlp/keybert_service.py:53-101)
TaskStart ==
    /\ tpc = "queued"
    /\ attempts' = attempts + 1
    /\ IF nlp_initialized \/ ~keybert_enabled
       THEN /\ UNCHANGED <<nlp_initialized, nlp_models, loads, raised>>
            /\ tpc' = "extract"
       ELSE \E outcome \in {"loaded", "de_fails", "en_fails"} :
            /\ loads' = [loads EXCEPT
                            !["de"] = IF outcome = "de_fails" THEN @
                                      ELSE @ + 1,
                            !["en"] = IF outcome = "loaded" THEN @ + 1
                                      ELSE @]
            /\ nlp_models' = nlp_models \cup
                    (CASE outcome = "loaded" -> {"de", "en"}
                       [] outcome = "en_fails" -> {"de"}
                       [] outcome = "de_fails" -> {})
            /\ nlp_initialized' = (outcome = "loaded")
            /\ raised' = IF outcome = "loaded" THEN None
                         ELSE "KeywordExtractionException"
            /\ tpc' = IF outcome = "loaded" THEN "extract" ELSE "handle"
    /\ UNCHANGED <<keybert_enabled, task_data, retries, countdown,
                   task_result>>
    /\ UNCHANGED <<kwVars, batchVars, cinitVars>>

\* keybert_tasks.py:78-130 with nlp/keybert_service.py:182-265:
\* extract_keywords validates, calls the model, and the task builds its
\* SUCCESS result; an exception of the model call leaves extract_keywords
\* as KeywordExtractionException
TaskExtract ==
    /\ tpc = "extract"
    /\ IF ValidationError(task_data) # None
       THEN /\ raised' = ValidationError(task_data)
            /\ tpc' = "handle"
            /\ UNCHANGED task_result
       ELSE \/ /\ raised' = None
               /\ task_result' = [status |-> "SUCCESS", error_code |-> None]
               /\ tpc' = "done"
            \/ /\ raised' = "KeywordExtractionException"
               /\ tpc' = "handle"
               /\ UNCHANGED task_result
    /\ UNCHANGED <<task_data, retries, attempts, countdown>>
    /\ UNCHANGED nlpSvcVars
    /\ UNCHANGED <<kwVars, batchVars, cinitVars>>

\* getattr(e, 'error_code', ...) of the exception classes (exceptions.py)
ErrorCode(exc) ==
    CASE exc = "ModelNotLoadedException" -> "MODEL_NOT_LOADED"
      [] exc = "UnsupportedLanguageException" -> "UNSUPPORTED_LANGUAGE"
      [] exc = "KeywordExtractionException" -> "KEYWORD_EXTRACTION_ERROR"
      [] OTHER -> "INTERNAL_ERROR"

\* keybert_tasks.py:144-175 retrying while retries <= max_retries
TaskHandleOneMore ==
    /\ tpc = "handle"
    /\ IF raised \in {"ModelNotLoadedException",
                      "UnsupportedLanguageException"}
       THEN /\ task_result' = [status |-> "FAILURE",
                               error_code |-> ErrorCode(raised)]
            /\ tpc' = "done"
            /\ UNCHANGED countdown
       ELSE IF retries <= max_retries
       THEN /\ countdown' = 60 * (retries + 1)
            /\ tpc' = "retry_wait"
            /\ UNCHANGED task_result
       ELSE /\ task_result' = [status |-> "FAILURE",
                               error_code |-> ErrorCode(raised)]
            /\ tpc' = "done"
            /\ UNCHANGED countdown
    /\ UNCHANGED <<task_data, retries, attempts, raised>>
    /\ UNCHANGED nlpSvcVars
    /\ UNCHANGED <<kwVars, batchVars, cinitVars>>

\* keybert_tasks.py:133-175: the except clauses.  The two named exceptions
\* give FAILURE at once; KeywordExtractionException and every other
\* Exception ask for a retry while retries < max_retries and give FAILURE
\* after that
TaskHandle ==
    /\ tpc = "handle"
    /\ IF raised \in {"ModelNotLoadedException",
                      "UnsupportedLanguageException"}
       THEN /\ task_result' = [status |-> "FAILURE",
                               error_code |-> ErrorCode(raised)]
            /\ tpc' = "done"
            /\ UNCHANGED countdown
       ELSE IF retries < max_retries
       THEN /\ countdown' = 60 * (retries + 1)
            /\ tpc' = "retry_wait"
            /\ UNCHANGED task_result
       ELSE /\ task_result' = [status |-> "FAILURE",
                               error_code |-> ErrorCode(raised)]
            /\ tpc' = "done"
            /\ UNCHANGED countdown
    /\ UNCHANGED <<task_data, retries, attempts, raised>>
    /\ UNCHANGED nlpSvcVars
    /\ UNCHANGED <<kwVars, batchVars, cinitVars>>

\* self.retry(): the task is queued again with retries + 1
TaskRedeliver ==
    /\ tpc = "retry_wait"
    /\ retries' = retries + 1
    /\ raised' = None
    /\ tpc' = "queued"
    /\ UNCHANGED <<task_data, attempts, countdown, task_result>>
    /\ UNCHANGED nlpSvcVars
    /\ UNCHANGED <<kwVars, batchVars, cinitVars>>

\* a task has been queued with extract_keywords_async.delay(task_data) in a
\* worker whose service is not initialized yet
InitTask ==
    /\ KwIdle
    /\ BatchIdle
    /\ CInitIdle
    /\ keybert_enabled \in BOOLEAN
    /\ nlp_initialized = FALSE
    /\ nlp_models = {}
    /\ loads = [l \in {"de", "en"} |-> 0]
    /\ tpc = "queued"
    /\ task_data \in TaskData
    /\ retries = 0
    /\ attempts = 0
    /\ countdown = 0
    /\ raised = None
    /\ task_result = NoResult

NextTask == TaskStart \/ TaskExtract \/ TaskHandle \/ TaskRedeliver

SpecTask == InitTask /\ [][NextTask]_vars

\* the broker delivers a queued task and a worker runs it to its end
SpecTaskFair == SpecTask /\ WF_vars(NextTask)

\* C22 (as stated): a run that failed because the text is too short or too
\* long asks for no retry: the task ends with FAILURE on its first attempt.
C22_LengthFailureNotRetried ==
    raised \in {"TextTooShortException", "TextTooLongException"} =>
        /\ tpc # "retry_wait"
        /\ attempts = 1
        /\ tpc = "done" => task_result.status = "FAILURE"

----------------------------------------------------------------------------
(* KeyBERTService.extract_keywords_batch of the backend application        *)
(* (app/services/nlp/keybert_service.py:267-404)                           *)

\* the longest batch drawn
MaxBatch == 3

\* core/config.py:67  keybert_max_batch_size: int = Field(default=100, ...)
keybert_max_batch_size == 100

\* a KeywordExtractionRequest has passed its schema: the text is 10 to
\* 50000 characters long and the language is a SupportedLanguage
\* (schemas/nlp/keybert.py:19-30)
BatchItems ==
    { d \in TaskData : /\ d.text.length >= MinTextLength
                       /\ d.text.length <= MaxTextLength
                       /\ d.language \in {"de", "en"} }

BatchRequests == UNION { [1..k -> BatchItems] : k \in 0..MaxBatch }

\* the error_code attribute of the exception classes (exceptions.py)
BatchErrorCode(exc) ==
    CASE exc = "ModelNotLoadedException" -> "MODEL_NOT_LOADED"
      [] exc = "UnsupportedLanguageException" -> "UNSUPPORTED_LANGUAGE"
      [] exc = "KeywordExtractionException" -> "KEYWORD_EXTRACTION_ERROR"
      [] exc \in {"TextTooShortException", "TextTooLongException"}
            -> "VALIDATION_ERROR"
      [] OTHER -> "PROCESSING_ERROR"

\* nlp/keybert_service.py:361-404  _process_single_request: the dict it
\* returns.  Every exception of extract_keywords, of the validation and of
\* the model call alike, is caught and becomes a dict with success False;
\* the coroutine itself never raises (raises is FALSE in every result)
process_single_request(index, data, model_fails) ==
    LET exc == IF ValidationError(data) # None THEN ValidationError(data)
               ELSE IF model_fails THEN "KeywordExtractionException"
               ELSE None
    IN  [index |-> index,
         success |-> (exc = None),
         error_code |-> IF exc = None THEN None ELSE BatchErrorCode(exc),
         raises |-> FALSE]

\* what the history keeps of a result
Outcome(result) ==
    <<result.index, IF result.success THEN "ok" ELSE "failed">>

\* nlp/keybert_service.py:288-299: the size check and the dispatch;
\* 301-312: the parallel path creates one task per request
BatchEnter ==
    /\ bpc = "entry"
    /\ IF Len(b_requests) > keybert_max_batch_size
       THEN /\ bpc' = "raised"
            /\ UNCHANGED b_tasks
       ELSE IF b_parallel
       THEN /\ b_tasks' = [i \in 1..Len(b_requests) |-> Absent]
            /\ bpc' = "par"
       ELSE /\ bpc' = "seq"
            /\ UNCHANGED b_tasks
    /\ UNCHANGED <<b_requests, b_parallel, b_fail_fast, b_i, b_results,
                   b_summary, b_outcomes>>
    /\ UNCHANGED <<nlpSvcVars, taskVars, cinitVars, kwVars>>

\* nlp/keybert_service.py:333-359: one pass of the loop of
\* _process_batch_sequential, or its return once the loop has ended.  The
\* except clause, and the break under fail_fast in it, is entered only
\* when _process_single_request raises
BatchSequentialStep ==
    /\ bpc = "seq"
    /\ IF b_i < Len(b_requests)
       THEN \E model_fails \in BOOLEAN :
            LET result == process_single_request(b_i, b_requests[b_i + 1],
                                                 model_fails)
            IN  /\ b_results' = Append(b_results,
                        IF result.raises
                        THEN [result EXCEPT !.raises = FALSE]
                        ELSE result)
                /\ b_outcomes' = Append(b_outcomes, Outcome(result))
                /\ IF result.raises /\ b_fail_fast
                   THEN bpc' = "done" /\ UNCHANGED b_i
                   ELSE bpc' = "seq" /\ b_i' = b_i + 1
       ELSE /\ bpc' = "done"
            /\ UNCHANGED <<b_i, b_results, b_outcomes>>
    /\ UNCHANGED <<b_requests, b_parallel, b_fail_fast, b_tasks, b_summary>>
    /\ UNCHANGED <<nlpSvcVars, taskVars, cinitVars, kwVars>>

\* one of the created tasks runs _process_single_request to its end; the
\* tasks wait for the executor and end in any order
BatchTaskRuns ==
    /\ bpc = "par"
    /\ \E i \in 1..Len(b_tasks) : \E model_fails \in BOOLEAN :
        LET result == process_single_request(i - 1, b_requests[i],
                                             model_fails)
        IN  /\ b_tasks[i] = Absent
            /\ b_tasks' = [b_tasks EXCEPT ![i] = Some(result)]
            /\ b_outcomes' = Append(b_outcomes, Outcome(result))
    /\ UNCHANGED <<bpc, b_requests, b_parallel, b_fail_fast, b_i, b_results,
                   b_summary>>
    /\ UNCHANGED <<nlpSvcVars, taskVars, cinitVars, kwVars>>

\* the tasks that have ended by raising
RaisedTasks ==
    { i \in 1..Len(b_tasks) :
        b_tasks[i] # Absent /\ Value(b_tasks[i]).raises }

\* nlp/keybert_service.py:314-331: asyncio.gather.  With fail_fast
\* (return_exceptions=False) the first task that raises makes gather raise;
\* without it the exceptions are made error dicts.  It returns the results
\* in the order of the requests once every task has ended
BatchGather ==
    /\ bpc = "par"
    /\ IF b_fail_fast /\ RaisedTasks # {}
       THEN /\ bpc' = "raised"
            /\ UNCHANGED b_results
       ELSE /\ \A i \in 1..Len(b_tasks) : b_tasks[i] # Absent
            /\ b_results' = [i \in 1..Len(b_tasks) |->
                                [Value(b_tasks[i]) EXCEPT !.raises = FALSE]]
            /\ bpc' = "done"
    /\ UNCHANGED <<b_requests, b_parallel, b_fail_fast, b_i, b_tasks,
                   b_summary, b_outcomes>>
    /\ UNCHANGED <<nlpSvcVars, taskVars, cinitVars, kwVars>>

\* extract_keywords_batch has been called on a service that is initialized
\* with both models, or on one that is not initialized
InitBatch ==
    /\ KwIdle
    /\ TaskIdle
    /\ CInitIdle
    /\ keybert_enabled = TRUE
    /\ nlp_initialized \in BOOLEAN
    /\ nlp_models = IF nlp_initialized THEN {"de", "en"} ELSE {}
    /\ loads = [l \in {"de", "en"} |-> IF nlp_initialized THEN 1 ELSE 0]
    /\ bpc = "entry"
    /\ b_requests \in BatchRequests
    /\ b_parallel \in BOOLEAN
    /\ b_fail_fast \in BOOLEAN
    /\ b_i = 0
    /\ b_tasks = <<>>
    /\ b_results = <<>>
    /\ b_summary = None
    /\ b_outcomes = <<>>

NextBatch ==
    BatchEnter \/ BatchSequentialStep \/ BatchTaskRuns \/ BatchGather

SpecBatch == InitBatch /\ [][NextBatch]_vars

\* the positions in the history of the requests that failed
FailedAt == { k \in 1..Len(b_outcomes) : b_outcomes[k][2] = "failed" }

\* C23 (as stated): with fail_fast, sequential processing handles no
\* request after the first one that failed and returns a list that ends
\* with the failing item; parallel processing returns no list in which a
\* failed item stands among the others, the failure aborts the batch.
C23_FailFastStops ==
    b_fail_fast =>
        /\ ~b_parallel => \A k \in FailedAt : k = Len(b_outcomes)
        /\ (~b_parallel /\ bpc = "done" /\ FailedAt # {}) =>
                ~b_results[Len(b_results)].success
        /\ (b_parallel /\ bpc = "done") =>
                \A k \in 1..Len(b_results) : b_results[k].success

----------------------------------------------------------------------------
(* The batch endpoint of the keyword-extraction service                    *)
(* (keyword-extraction/app/api/endpoints.py:59-110).  It calls             *)
(* service.extract for one item after the other; the call is the extract   *)
(* modelled above, run on the item.                                        *)

\* the longest list of texts drawn
MaxItems == 2

\* the items of a batch: one text, extracted in one piece or in windows;
\* chunk_overlap_chars 3 is not below chunk_size_chars, which smart_split
\* refuses
EndpointItems ==
    { r \in Requests :
        /\ r.text = <<"a", " ", "b", ".", "a">>
        /\ r.language = "de"
        /\ r.max_ngram = Absent
        /\ r.max_keywords = 1
        /\ r.title_config = Absent
        /\ r.chunking.max_pages = 5
        /\ r.chunking.aggregation = "max" }

\* BatchKeywordRequest.texts has at least one item (extraction.py:104-108)
EndpointBatches == UNION { [1..k -> EndpointItems] : k \in 1..MaxItems }

\* endpoints.py:76-78: service.extract(item) is called for the item at idx
BatchItemCall ==
    /\ bpc = "loop"
    /\ b_i < Len(b_requests)
    /\ ExtractEnter
    /\ request' = b_requests[b_i + 1]

\* the locals of a call of extract are gone once it has returned or raised
ExtractLeft ==
    /\ epc' = "idle"
    /\ request' = None
    /\ etext' = <<>>
    /\ stop_words' = None
    /\ ngram_range' = None
    /\ char_len' = 0
    /\ approx_pages' = None
    /\ response' = None
    /\ error' = None
    /\ pc' = "idle"
    /\ text' = <<>>
    /\ chunk_size' = 0
    /\ overlap' = 0
    /\ n' = 0
    /\ start' = 0
    /\ pieces' = <<>>
    /\ chunks' = <<>>
    /\ apc' = "idle"
    /\ max_keywords' = 0
    /\ aggregation' = None
    /\ candidate_pool_multiplier' = 0
    /\ per_chunk_topn' = 0
    /\ idx' = 0
    /\ accumulator' = <<>>
    /\ raws' = <<>>
    /\ calls' = <<>>
    /\ results' = <<>>
    /\ UNCHANGED svcVars

\* the history with the outcome of the call that has ended
Settled(outcome) == Append(b_outcomes, <<request.text, b_i, outcome>>)

\* endpoints.py:78-84: extract returned, the item is appended as a success
BatchItemReturned ==
    /\ bpc = "loop"
    /\ epc = "done"
    /\ b_results' = Append(b_results, [index |-> b_i, success |-> TRUE])
    /\ b_outcomes' = Settled("ok")
    /\ b_i' = b_i + 1
    /\ ExtractLeft
    /\ UNCHANGED <<bpc, b_requests, b_parallel, b_fail_fast, b_tasks,
                   b_summary>>
    /\ UNCHANGED <<nlpSvcVars, taskVars, cinitVars>>

\* endpoints.py:85-95 leaving the loop on every failure
BatchItemRaisedBreaks ==
    /\ bpc = "loop"
    /\ epc = "error"
    /\ b_results' = Append(b_results, [index |-> b_i, success |-> FALSE])
    /\ b_outcomes' = Settled("failed")
    /\ bpc' = "break"
    /\ UNCHANGED b_i
    /\ ExtractLeft
    /\ UNCHANGED <<b_requests, b_parallel, b_fail_fast, b_tasks, b_summary>>
    /\ UNCHANGED <<nlpSvcVars, taskVars, cinitVars>>

\* endpoints.py:85-95: extract raised, the item is appended as a failure,
\* and the loop is left when fail_fast is set
BatchItemRaised ==
    /\ bpc = "loop"
    /\ epc = "error"
    /\ b_results' = Append(b_results, [index |-> b_i, success |-> FALSE])
    /\ b_outcomes' = Settled("failed")
    /\ IF b_fail_fast
       THEN bpc' = "break" /\ UNCHANGED b_i
       ELSE bpc' = "loop" /\ b_i' = b_i + 1
    /\ ExtractLeft
    /\ UNCHANGED <<b_requests, b_parallel, b_fail_fast, b_tasks, b_summary>>
    /\ UNCHANGED <<nlpSvcVars, taskVars, cinitVars>>

\* endpoints.py:97-106: after the loop the summary is built and the
\* response returned
BatchRespond ==
    /\ \/ bpc = "loop" /\ b_i = Len(b_requests) /\ epc = "idle"
       \/ bpc = "break"
    /\ b_summary' =
        [ total |-> Len(b_requests),
          succeeded |->
            Cardinality({k \in 1..Len(b_results) : b_results[k].success}),
          failed |->
            Cardinality({k \in 1..Len(b_results) : ~b_results[k].success}) ]
    /\ bpc' = "done"
    /\ UNCHANGED <<b_requests, b_parallel, b_fail_fast, b_i, b_tasks,
                   b_results, b_outcomes>>
    /\ UNCHANGED <<nlpSvcVars, taskVars, cinitVars, kwVars>>

\* the endpoint is entered with a request; get_service has found the
\* service initialized (endpoints.py:26-33)
InitEndpoint ==
    /\ NlpSvcIdle
    /\ TaskIdle
    /\ CInitIdle
    /\ SvcReady
    /\ ExtIdle
    /\ SplitIdle
    /\ chunks = <<>>
    /\ AggIdle
    /\ bpc = "loop"
    /\ b_requests \in EndpointBatches
    /\ b_parallel = FALSE
    /\ b_fail_fast \in BOOLEAN
    /\ b_i = 0
    /\ b_tasks = <<>>
    /\ b_results = <<>>
    /\ b_summary = None
    /\ b_outcomes = <<>>

\* the steps of the extract in progress
ExtractRuns ==
    \/ TitleWeighting \/ NgramHandling \/ PageLimit
    \/ DispatchChunked \/ SplitEnter \/ SplitStep \/ SplitRaised
    \/ SplitReturned \/ ChunksEnter \/ ScoreChunk \/ ScoreChunkRaises
    \/ Aggregate \/ ChunksReturned \/ ChunksRaised
    \/ ExtractSingle \/ ExtractSingleRaises \/ Respond

NextEndpoint ==
    \/ BatchItemCall \/ ExtractRuns
    \/ BatchItemReturned \/ BatchItemRaised \/ BatchRespond

SpecEndpoint == InitEndpoint /\ [][NextEndpoint]_vars

\* the position in the results of the first failed item, 0 if none failed
FirstFailure ==
    LET failed == { k \in 1..Len(b_results) : ~b_results[k].success }
    IN  IF failed = {} THEN 0
        ELSE CHOOSE k \in failed : \A j \in failed : k <= j

\* C24: in the response of the batch endpoint every result item stands at
\* the position of its request, has that position as index and tells what
\* extract did for it.  Without fail_fast there is one item per request,
\* every request has been handed to extract, and succeeded + failed =
\* total; with fail_fast the results are the items up to and including the
\* first failure, or all of them when none failed.
C24_PerItemOutcome ==
    bpc = "done" =>
        /\ Len(b_outcomes) = Len(b_results)
        /\ \A k \in 1..Len(b_results) :
            /\ b_results[k].index = k - 1
            /\ b_outcomes[k] =
                <<b_requests[k].text, k - 1,
                  IF b_results[k].success THEN "ok" ELSE "failed">>
        /\ ~b_fail_fast =>
            /\ Len(b_results) = Len(b_requests)
            /\ b_summary.succeeded + b_summary.failed = b_summary.total
        /\ b_fail_fast =>
            Len(b_results) = IF FirstFailure = 0 THEN Len(b_requests)
                             ELSE FirstFailure

\* a batch without fail_fast whose first item failed and whose second item
\* succeeded has been answered
C24_Witness ==
    /\ bpc = "done"
    /\ ~b_fail_fast
    /\ Len(b_results) = 2
    /\ ~b_results[1].success
    /\ b_results[2].success

----------------------------------------------------------------------------
(* smart_split: progress of the loop and choice of the cut *)

\* C25 (as stated): every iteration of smart_split that does not end the
\* loop leaves a start offset strictly greater than the one it began with.
C25_StartAdvances ==
    [][(pc = "loop" /\ pc' = "loop") => start' > start]_vars

\* the offset of the nearest boundary character at or after the tentative
\* end, within the forward window, that keeps the window at 60 % of
\* chunk_size; -1 if there is none
AcceptableForward(t, st, cs) ==
    LET end     == Min(st + cs, Len(t))
        forward == SearchForward(Slice(t, end, Min(end + ForwardWindow, Len(t))))
    IN  IF forward # -1 /\ NotShrunkTooMuch(end + forward, st, cs)
        THEN end + forward
        ELSE -1

\* the offset of the last boundary character in
\* [start + 0.6 * chunk_size, tentative end), -1 if there is none
LastBackward(t, st, cs) ==
    LET end          == Min(st + cs, Len(t))
        window_start == Max(st + IntSixTenths(cs), st)
        backward     == SearchBackward(Slice(t, window_start, end))
    IN  IF backward # -1 THEN window_start + backward ELSE -1

\* C26 (as stated): every window is cut at the nearest acceptable forward
\* boundary when there is one, the boundary at the tentative end included;
\* at the last boundary of the backward search only when there is no
\* acceptable forward boundary; and at the tentative end only when neither
\* search finds a boundary.
C26_CutOrder ==
    \A k \in 1..Len(pieces) :
        LET st == pieces[k].s
            fw == AcceptableForward(text, st, chunk_size)
            bw == LastBackward(text, st, chunk_size)
        IN  pieces[k].e = IF fw # -1 THEN fw
                          ELSE IF bw # -1 THEN bw
                          ELSE Min(st + chunk_size, n)

----------------------------------------------------------------------------
(* The chunked path and the stages of extract *)

\* C27: on the chunked path the k-th scorer call is for the k-th window of
\* the chunker, so no window is skipped or scored twice, and the keyword
\* list exists only once the call for every window has returned: it is the
\* aggregation of all their lists.
C27_FullJoin ==
    apc # "idle" =>
        /\ Len(calls) <= Len(chunks)
        /\ \A k \in 1..Len(calls) :
            /\ calls[k].window = chunks[k]
            /\ calls[k].top_n = per_chunk_topn
        /\ results # <<>> => apc = "returned"
        /\ apc = "returned" =>
            /\ Len(calls) = Len(chunks)
            /\ Len(raws) = Len(chunks)
            /\ results = extract_from_chunks(raws, aggregation, max_keywords)

\* several windows, the first two different, have been scored and their
\* candidates aggregated into a non-empty list
C27_Witness ==
    /\ epc = "scoring"
    /\ apc = "returned"
    /\ Len(chunks) >= 2
    /\ chunks[1] # chunks[2]
    /\ Len(calls) = Len(chunks)
    /\ raws[2] # <<>>
    /\ results # <<>>

\* extract is synchronous code: once called it runs on while it has a
\* step to take
SpecExtractFair == SpecExtract /\ WF_vars(ExtractRuns)

\* the place of a stage in the order of lines 66-191
StageRank(stage) ==
    CASE stage = "idle" -> 0
      [] stage = "title" -> 1
      [] stage = "ngram" -> 2
      [] stage = "page_limit" -> 3
      [] stage = "dispatch" -> 4
      [] stage = "chunking" -> 5
      [] stage = "scoring" -> 6
      [] stage = "respond" -> 7
      [] stage \in {"done", "error"} -> 8

\* a request is in one of the stages between the call and its end
InProgress == epc \notin {"idle", "done", "error"}

\* C28 (as stated): a request moves through the stages in their order and
\* enters none of them twice, and every run ends, either done with a
\* response or with a raised error and no response.
C28_LinearPipeline ==
    /\ [][epc' # epc => StageRank(epc') > StageRank(epc)]_vars
    /\ [](epc = "done" => error = None)
    /\ [](epc = "error" => Len(calls) >= Len(raws) /\ error # None)
    /\ InProgress ~> ~InProgress

\* the stages are passed in their order and none is entered twice
C28_StageOrder ==
    [][epc' # epc => StageRank(epc') > StageRank(epc)]_vars

----------------------------------------------------------------------------
(* The queued task and the initialization of the nlp service *)

\* C29: a task runs at most max_retries + 1 times; a retry is asked for
\* only while retries < max_retries, with a countdown of 60 * (retries + 1)
\* seconds, which grows from one request to the next; a failure with the
\* retries used up gives a FAILURE result; and every task ends, in SUCCESS
\* or in FAILURE.
C29_BoundedRetry ==
    /\ [](attempts <= max_retries + 1)
    /\ [](tpc = "retry_wait" =>
            /\ retries < max_retries
            /\ countdown = 60 * (retries + 1))
    /\ [][countdown' # countdown => countdown' > countdown]_vars
    /\ [](tpc = "done" =>
            /\ task_result.status \in {"SUCCESS", "FAILURE"}
            /\ (raised # None) = (task_result.status = "FAILURE"))
    /\ <>(tpc = "done")

\* a task has failed in every one of its four runs and ended in FAILURE
\* after the third retry with its countdown of 180 seconds
C29_Witness ==
    /\ tpc = "done"
    /\ attempts = max_retries + 1
    /\ retries = max_retries
    /\ countdown = 180
    /\ task_result.status = "FAILURE"

\* the number of concurrent callers of initialize()
MaxCallers == 2

Callers == 1..MaxCallers

\* the caller can take a step.  A thread runs whenever it is not waiting.
\* Coroutines share the thread of their event loop: while one of them
\* waits in the acquire of `with self._lock` (a threading.Lock, line 63)
\* that thread is blocked and no other coroutine of the loop runs
CanRun(c) ==
    \/ c_mode = "threads"
    \/ \A d \in Callers \ {c} : c_pc[d] # "lock"

\* nlp/keybert_service.py:59-61: the call begins with the unlocked test of
\* _initialized and goes on to the lock
CInitCall(c) ==
    /\ c_pc[c] = "start"
    /\ CanRun(c)
    /\ c_pc' = [c_pc EXCEPT ![c] = IF nlp_initialized THEN "returned"
                                   ELSE "lock"]
    /\ UNCHANGED <<c_mode, lock_owner>>
    /\ UNCHANGED <<nlpSvcVars, taskVars, batchVars, kwVars>>

\* nlp/keybert_service.py:63-76: the lock is acquired once it is free; the
\* second test of _initialized and the test of keybert_enabled return and
\* release it, otherwise the load of the de model is handed to the executor
\* and the coroutine waits for it with the lock held
CInitAcquire(c) ==
    /\ c_pc[c] = "lock"
    /\ lock_owner = 0
    /\ IF nlp_initialized \/ ~keybert_enabled
       THEN /\ c_pc' = [c_pc EXCEPT ![c] = "returned"]
            /\ UNCHANGED lock_owner
       ELSE /\ c_pc' = [c_pc EXCEPT ![c] = "load_de"]
            /\ lock_owner' = c
    /\ UNCHANGED c_mode
    /\ UNCHANGED <<nlpSvcVars, taskVars, batchVars, kwVars>>

\* nlp/keybert_service.py:115-120: a thread of the executor builds the
\* SentenceTransformer of the language, or fails to
ExecutorLoads(c) ==
    /\ c_pc[c] \in {"load_de", "load_en"}
    /\ LET lang == IF c_pc[c] = "load_de" THEN "de" ELSE "en"
       IN  \E ok \in BOOLEAN :
            /\ loads' = [loads EXCEPT ![lang] = IF ok THEN @ + 1 ELSE @]
            /\ c_pc' = [c_pc EXCEPT ![c] =
                            lang \o (IF ok THEN "_ready" ELSE "_failed")]
    /\ UNCHANGED <<c_mode, lock_owner>>
    /\ UNCHANGED <<keybert_enabled, nlp_initialized, nlp_models>>
    /\ UNCHANGED <<taskVars, batchVars, kwVars>>

\* nlp/keybert_service.py:122-137 and 78-101: the coroutine goes on after
\* the load.  The de model is stored and the en model asked for; the en
\* model is stored, _initialized set and the lock released on leaving the
\* with block; a failed load raises out of the with block, which releases
\* the lock
CInitResume(c) ==
    /\ c_pc[c] \in {"de_ready", "de_failed", "en_ready", "en_failed"}
    /\ CanRun(c)
    /\ CASE c_pc[c] = "de_ready" ->
                /\ nlp_models' = nlp_models \cup {"de"}
                /\ c_pc' = [c_pc EXCEPT ![c] = "load_en"]
                /\ UNCHANGED <<nlp_initialized, lock_owner>>
         [] c_pc[c] = "en_ready" ->
                /\ nlp_models' = nlp_models \cup {"en"}
                /\ nlp_initialized' = TRUE
                /\ lock_owner' = 0
                /\ c_pc' = [c_pc EXCEPT ![c] = "returned"]
         [] OTHER ->
                /\ lock_owner' = 0
                /\ c_pc' = [c_pc EXCEPT ![c] = "raised"]
                /\ UNCHANGED <<nlp_initialized, nlp_models>>
    /\ UNCHANGED c_mode
    /\ UNCHANGED <<keybert_enabled, loads>>
    /\ UNCHANGED <<taskVars, batchVars, kwVars>>

\* several callers are about to call initialize() of a new service, as
\* coroutines of one event loop or as threads with a loop each
\* (keybert_tasks.py:47-55 runs initialize in a new loop of the worker's
\* thread, main.py:102 awaits it in the application's loop)
InitInitialize ==
    /\ KwIdle
    /\ TaskIdle
    /\ BatchIdle
    /\ keybert_enabled \in BOOLEAN
    /\ nlp_initialized = FALSE
    /\ nlp_models = {}
    /\ loads = [l \in {"de", "en"} |-> 0]
    /\ c_mode \in {"coroutines", "threads"}
    /\ c_pc = [c \in Callers |-> "start"]
    /\ lock_owner = 0

NextInitialize ==
    \E c \in Callers :
        CInitCall(c) \/ CInitAcquire(c) \/ ExecutorLoads(c) \/ CInitResume(c)

SpecInitialize == InitInitialize /\ [][NextInitialize]_vars

\* a caller, the executor and the event loop go on whenever they can
SpecInitializeFair == SpecInitialize /\ WF_vars(NextInitialize)

\* C30 (as stated): with several concurrent callers of initialize() every
\* call comes to its end, no language model is loaded more than once, and
\* the service is initialized only with both models loaded.
C30_ConcurrentInitialize ==
    /\ <>(\A c \in Callers : c_pc[c] \in {"returned", "raised"})
    /\ [](\A l \in {"de", "en"} : loads[l] <= 1)
    /\ [](nlp_initialized => nlp_models = {"de", "en"})

\* two coroutines of one loop: the first waits for the executor with the
\* lock held, the second waits for the lock, and neither can go on
C30_Deadlocked ==
    /\ c_mode = "coroutines"
    /\ \E c, d \in Callers :
        /\ lock_owner = c
        /\ c_pc[c] = "de_ready"
        /\ c_pc[d] = "lock"

=============================================================================
